---- MODULE Spec2Model ----
(***************************************************************************)
(* Dual-store retrieval pipeline of community_version/query.py:             *)
(* entity extraction, query building, the two concurrent store searches,    *)
(* per-store thresholding, round-robin combination, context assembly,       *)
(* the audit log, the generator singleton and the orchestrator ask().       *)
(*                                                                          *)
(* Text is a sequence of atoms.  A document body, an entity and a question  *)
(* are sequences of one-character strings; the fixed pieces that the code   *)
(* formats around them ("---", "Store:", a filepath) are single atoms.     *)
(* Whitespace is only ever the atoms " " and "\n".                          *)
(***************************************************************************)
EXTENDS Integers, Sequences, FiniteSets, TLC

\* ---------------------------------------------------------------- bounds
\* longest hit list one store answers with in the orchestrator model
MaxHits == 2
\* scores are 1..MaxScore
MaxScore == 3
\* lists given to combine_hits alone have up to MaxLen elements
MaxLen == 6
\* caps given to combine_hits alone are -1..MaxCap
MaxCap == 11
\* ALPHA given to rank_hits alone is n/d with 1 <= n <= d <= MaxDen
MaxDen == 3
\* number of threads that call load_llm, and calls each of them makes
MaxCallers == 2
MaxCalls == 2
\* questions one caller serves with the generator it holds
MaxQuestions == 2

\* ------------------------------------------------------ program constants
\* ALPHA = 0.5, as the fraction AlphaNum / AlphaDen
AlphaNum == 1
AlphaDen == 2
SEARCH_SIZE == 8
\* ask: combine_hits(..., max_total=10), build_context(..., max_chars_per_doc=1500)
AskMaxTotal == 10
AskMaxChars == 1500

LONG_INDEX_NAME == "bbc"
HOT_INDEX_NAME == "bbc"
PREFERENCE == "governance-audit-v1"
Sentinel == "No relevant information found."

Stores == {"LONG", "HOT"}
Other(s) == IF s = "LONG" THEN "HOT" ELSE "LONG"

\* ------------------------------------------------------------------ text
Whitespace == {" ", "\n"}

RECURSIVE LStrip(_)
LStrip(s) == IF s # <<>> /\ Head(s) \in Whitespace THEN LStrip(Tail(s)) ELSE s

RECURSIVE RStrip(_)
RStrip(s) ==
  IF s # <<>> /\ s[Len(s)] \in Whitespace THEN RStrip(SubSeq(s, 1, Len(s) - 1)) ELSE s

\* str.strip()
Strip(s) == RStrip(LStrip(s))

\* str.lower(), one character
LowerChar(c) == CASE c = "E" -> "e" [] c = "W" -> "w" [] OTHER -> c

\* str.lower()
Lower(s) == [i \in 1..Len(s) |-> LowerChar(s[i])]

Min(a, b) == IF a <= b THEN a ELSE b
Max(a, b) == IF a >= b THEN a ELSE b

\* s[:n]; a negative n counts from the end
Truncate(s, n) ==
  IF n >= 0 THEN SubSeq(s, 1, Min(n, Len(s))) ELSE SubSeq(s, 1, Max(Len(s) + n, 0))

\* sep.join(parts), parts a sequence of texts
RECURSIVE Join(_, _)
Join(sep, parts) ==
  IF parts = <<>> THEN <<>>
  ELSE IF Len(parts) = 1 THEN parts[1]
  ELSE parts[1] \o sep \o Join(sep, Tail(parts))

Range(s) == {s[i] : i \in 1..Len(s)}

\* ------------------------------------------------------------ NER client
\* normalize_entities: lower-cased, trimmed, de-duplicated, in first-seen order.
\* names is the value of ner_result.get("entities", []), a list of strings.
RECURSIVE NormalizeLoop(_, _)
NormalizeLoop(names, out) ==
  IF names = <<>> THEN out
  ELSE LET k == Lower(Strip(Head(names)))
       IN  IF k # <<>> /\ k \notin Range(out)
           THEN NormalizeLoop(Tail(names), Append(out, k))
           ELSE NormalizeLoop(Tail(names), out)

\* The body of a 2xx JSON reply is one of these shapes:
\*   "entities"     {"entities": [str, ...]}
\*   "no_entities"  a JSON object without the key "entities"
\*   "null"         {"entities": null}
\*   "not_object"   a JSON value that is no object (a list, a number, ...)
\*   "non_string"   {"entities": [...]} with an element that is no string
\* normalize_entities returns a list, or raises where Python raises.
normalize_entities(ner_result) ==
  CASE ner_result.shape = "entities" ->
         [raised |-> FALSE, value |-> NormalizeLoop(ner_result.entities, <<>>)]
    [] ner_result.shape = "no_entities" -> [raised |-> FALSE, value |-> <<>>]
    [] ner_result.shape = "null" -> [raised |-> TRUE, exc |-> "TypeError"]
    [] ner_result.shape = "not_object" -> [raised |-> TRUE, exc |-> "AttributeError"]
    [] ner_result.shape = "non_string" -> [raised |-> TRUE, exc |-> "AttributeError"]

\* post_ner: the reply of the NER service decides the result.
\*   "transport"  requests.post raises (connection error, timeout)
\*   "http_error" non-2xx status: SystemExit
\*   "non_json"   2xx with a body that is no JSON: SystemExit
\*   "json"       2xx with a JSON body: returned
post_ner(reply) ==
  CASE reply.kind = "transport" -> [raised |-> TRUE, exc |-> "RequestException"]
    [] reply.kind = "http_error" -> [raised |-> TRUE, exc |-> "SystemExit"]
    [] reply.kind = "non_json" -> [raised |-> TRUE, exc |-> "SystemExit"]
    [] reply.kind = "json" -> [raised |-> FALSE, value |-> reply.body]

\* ---------------------------------------------------------- query builder
\* build_query that keeps the full-question match as a last strategy
build_query_fallback(question, entities) ==
  IF entities = <<>>
  THEN [dis_max |-> [tie_breaker |-> 0,
                     queries |-> << [match |-> [content |-> [query |-> question]]] >>]]
  ELSE LET joined == Join(<<" ">>, entities)
       IN  [dis_max |-> [tie_breaker |-> 0,
              queries |-> <<
                [bool |-> [should |-> <<
                    [terms_set |-> [explicit_terms |->
                        [terms |-> entities,
                         minimum_should_match_script |-> [source |-> "params.num_terms"]]]],
                    [match |-> [explicit_terms_text |-> [query |-> joined, operator |-> "and"]]],
                    [multi_match |-> [query |-> joined,
                                      fields |-> <<"content^1.0", "category^0.5">>,
                                      operator |-> "and"]] >>,
                  minimum_should_match |-> 1, boost |-> 30]],
                [bool |-> [should |-> <<
                    [terms |-> [explicit_terms |-> entities]],
                    [match |-> [explicit_terms_text |-> joined]],
                    [multi_match |-> [query |-> joined,
                                      fields |-> <<"content^1.0", "category^0.5">>]] >>,
                  minimum_should_match |-> 1, boost |-> 10]],
                [match |-> [content |-> [query |-> question]]] >>]]

\* build_query: the query dict, field for field.
build_query(question, entities) ==
  IF entities = <<>>
  THEN [dis_max |-> [tie_breaker |-> 0,
                     queries |-> << [match |-> [content |-> [query |-> question]]] >>]]
  ELSE LET joined == Join(<<" ">>, entities)
           strict_bool ==
             [bool |-> [should |-> <<
                 [terms_set |-> [explicit_terms |->
                     [terms |-> entities,
                      minimum_should_match_script |-> [source |-> "params.num_terms"]]]],
                 [match |-> [explicit_terms_text |-> [query |-> joined, operator |-> "and"]]],
                 [multi_match |-> [query |-> joined,
                                   fields |-> <<"content^1.0", "category^0.5">>,
                                   operator |-> "and"]] >>,
               minimum_should_match |-> 1,
               boost |-> 30]]
           or_bool ==
             [bool |-> [should |-> <<
                 [terms |-> [explicit_terms |-> entities]],
                 [match |-> [explicit_terms_text |-> joined]],
                 [multi_match |-> [query |-> joined,
                                   fields |-> <<"content^1.0", "category^0.5">>]] >>,
               minimum_should_match |-> 1,
               boost |-> 10]]
       IN  [dis_max |-> [tie_breaker |-> 0, queries |-> <<strict_bool, or_bool>>]]

\* ------------------------------------------------------- search + ranking
\* What client.search does, decided by the store:
\*   "ok"                  a response; hits sorted by the backend, total = the match count
\*   "TransportError"      an HTTP-level or connection error (a TransportError)
\*   "ConnectionTimeout"   the request timed out (a subclass of TransportError)
\*   "SerializationError"  the response could not be decoded (no TransportError)
TransportErrors == {"TransportError", "ConnectionTimeout"}

\* search_one without its except clause: a transport error leaves the function
search_one_nocatch(label, index_name, query, reply) ==
  IF reply.kind = "ok"
  THEN [raised |-> FALSE,
        value |-> [_store_label |-> label, _index_used |-> index_name, _query |-> query,
                   hits |-> [total |-> [value |-> reply.total, relation |-> "eq"],
                             hits |-> reply.hits]]]
  ELSE [raised |-> TRUE, exc |-> reply.kind]

\* search_one: the outcome dict, or the exception that leaves the function.
search_one(label, index_name, query, reply) ==
  IF reply.kind = "ok"
  THEN [raised |-> FALSE,
        value |-> [_store_label |-> label, _index_used |-> index_name, _query |-> query,
                   hits |-> [total |-> [value |-> reply.total, relation |-> "eq"],
                             hits |-> reply.hits]]]
  ELSE IF reply.kind \in TransportErrors
  THEN [raised |-> FALSE,
        value |-> [_store_label |-> label, _index_used |-> index_name, _query |-> query,
                   _error |-> <<reply.kind, ": ", reply.error>>,
                   hits |-> [total |-> [value |-> 0, relation |-> "eq"], hits |-> <<>>]]]
  ELSE [raised |-> TRUE, exc |-> reply.kind]

\* dict.get with a default, on records
Get(d, key, default) == IF key \in DOMAIN d THEN d[key] ELSE default

\* res.get("hits", {}).get("hits", []) or []
HitsOf(res) == Get(Get(res, "hits", [x \in {} |-> x]), "hits", <<>>)

\* res.get("hits", {}).get("total", {}).get("value", 0)
TotalOf(res) == Get(Get(Get(res, "hits", [x \in {} |-> x]), "total", [x \in {} |-> x]), "value", 0)

\* h["_store_label"] = ...; h["_index_used"] = ...
Annotate(h, res) ==
  [k \in DOMAIN h \cup {"_store_label", "_index_used"} |->
     IF k = "_store_label" THEN Get(res, "_store_label", "?")
     ELSE IF k = "_index_used" THEN Get(res, "_index_used", "?")
     ELSE h[k]]

\* the comparison written with > instead of >=
AtLeastStrict(score, a, top1) == score * a[2] > a[1] * top1

\* h["_score"] >= ALPHA * top1, with ALPHA the fraction a[1] / a[2]
AtLeast(score, a, top1) == score * a[2] >= a[1] * top1

\* rank_hits: the kept hits, annotated with their store. a is the global ALPHA.
rank_hits(res, a) ==
  LET hits == HitsOf(res)
  IN  IF hits = <<>> THEN <<>>
      ELSE LET top1 == hits[1]._score
               \* [h for h in hits if h["_score"] >= ALPHA * top1], built hit by hit
               upto[i \in 0..Len(hits)] ==
                 IF i = 0 THEN <<>>
                 ELSE IF AtLeast(hits[i]._score, a, top1)
                      THEN Append(upto[i - 1], hits[i]) ELSE upto[i - 1]
               keep == upto[Len(hits)]
           IN  [i \in 1..Len(keep) |-> Annotate(keep[i], res)]

\* rank_hits annotates the kept hits in place: res as it is after the call.
RankedInPlace(res, a) ==
  LET hits == HitsOf(res)
  IN  IF hits = <<>> THEN res
      ELSE [res EXCEPT !.hits.hits =
              [i \in 1..Len(hits) |->
                 IF AtLeast(hits[i]._score, a, hits[1]._score)
                 THEN Annotate(hits[i], res) ELSE hits[i]]]

\* combine_hits: the while loop, one iteration per unfolding.
RECURSIVE CombineLoop(_, _, _, _, _, _)
CombineLoop(combined, ia, ib, hits_a, hits_b, max_total) ==
  IF Len(combined) < max_total /\ (ia < Len(hits_a) \/ ib < Len(hits_b))
  THEN LET tookA == ia < Len(hits_a)
           c1 == IF tookA THEN Append(combined, hits_a[ia + 1]) ELSE combined
           ia1 == IF tookA THEN ia + 1 ELSE ia
       IN  IF Len(c1) >= max_total THEN c1
           ELSE LET tookB == ib < Len(hits_b)
                    c2 == IF tookB THEN Append(c1, hits_b[ib + 1]) ELSE c1
                    ib1 == IF tookB THEN ib + 1 ELSE ib
                IN  CombineLoop(c2, ia1, ib1, hits_a, hits_b, max_total)
  ELSE combined

\* the loop without the cap check between the two appends
RECURSIVE CombineLoopNoBreak(_, _, _, _, _, _)
CombineLoopNoBreak(combined, ia, ib, hits_a, hits_b, max_total) ==
  IF Len(combined) < max_total /\ (ia < Len(hits_a) \/ ib < Len(hits_b))
  THEN LET tookA == ia < Len(hits_a)
           c1 == IF tookA THEN Append(combined, hits_a[ia + 1]) ELSE combined
           ia1 == IF tookA THEN ia + 1 ELSE ia
           tookB == ib < Len(hits_b)
           c2 == IF tookB THEN Append(c1, hits_b[ib + 1]) ELSE c1
           ib1 == IF tookB THEN ib + 1 ELSE ib
       IN  CombineLoopNoBreak(c2, ia1, ib1, hits_a, hits_b, max_total)
  ELSE combined

combine_hits_nobreak(hits_a, hits_b, max_total) ==
  CombineLoopNoBreak(<<>>, 0, 0, hits_a, hits_b, max_total)

\* the interleave started with B instead of A
combine_hits_b_first(hits_a, hits_b, max_total) ==
  CombineLoop(<<>>, 0, 0, hits_b, hits_a, max_total)

\* A's hits, then B's, cut at the cap
combine_hits_concat(hits_a, hits_b, max_total) ==
  Truncate(hits_a \o hits_b, max_total)

combine_hits(hits_a, hits_b, max_total) == CombineLoop(<<>>, 0, 0, hits_a, hits_b, max_total)

\* ------------------------------------------------------- context assembly
\* a section that carries the whole body, whatever the budget
SectionWholeBody(h, max_chars_per_doc) ==
  LET src == Get(h, "_source", [x \in {} |-> x])
      fp == Get(src, "filepath", "<unknown>")
      store == Get(h, "_store_label", "?")
      content == Strip(Get(src, "content", <<>>))
  IN  <<"---", "\n", "Store:", " ", store, "\n", "Doc:", " ", fp, "\n">> \o content \o <<"\n">>

\* one section: f"---\nStore: {store}\nDoc: {fp}\n{snippet}\n"
Section(h, max_chars_per_doc) ==
  LET src == Get(h, "_source", [x \in {} |-> x])
      fp == Get(src, "filepath", "<unknown>")
      store == Get(h, "_store_label", "?")
      content == Strip(Get(src, "content", <<>>))
      snippet == Truncate(content, max_chars_per_doc)
  IN  <<"---", "\n", "Store:", " ", store, "\n", "Doc:", " ", fp, "\n">> \o snippet \o <<"\n">>

\* build_context that puts a heading line before the sections, hits or no hits
build_context_heading(hits, max_chars_per_doc) ==
  <<"Context:", "\n">>
  \o Join(<<"\n">>, [i \in 1..Len(hits) |-> Section(hits[i], max_chars_per_doc)])

\* build_context: "" for no hits, else the sections joined by "\n"
build_context(hits, max_chars_per_doc) ==
  IF hits = <<>> THEN <<>>
  ELSE Join(<<"\n">>, [i \in 1..Len(hits) |-> Section(hits[i], max_chars_per_doc)])

\* save_results: one more line at the end of the file
save_results(file, payload) == Append(file, payload)

\* h.get("_source", {}).get("filepath"); None is the atom "None"
FilepathOf(h) == Get(Get(h, "_source", [x \in {} |-> x]), "filepath", "None")

Filepaths(hits) == [i \in 1..Len(hits) |-> FilepathOf(hits[i])]

\* a payload that also dumps the combined hits, bodies included
AuditPayloadWithHits(q, ents, a, rl, rh, kl, kh, comb) ==
  [ts |-> "ts", question |-> q, entities |-> ents, alpha |-> a, size |-> SEARCH_SIZE,
   preference |-> PREFERENCE,
   long |-> [index |-> Get(rl, "_index_used", "None"), total |-> TotalOf(rl),
             error |-> Get(rl, "_error", "None"), kept_filepaths |-> Filepaths(kl)],
   hot |-> [index |-> Get(rh, "_index_used", "None"), total |-> TotalOf(rh),
            error |-> Get(rh, "_error", "None"), kept_filepaths |-> Filepaths(kh)],
   combined_filepaths |-> Filepaths(comb),
   combined |-> comb]

\* the payload of step 7; the clock is not modelled, "ts" is the atom "ts"
AuditPayload(q, ents, a, rl, rh, kl, kh, comb) ==
  [ts |-> "ts", question |-> q, entities |-> ents, alpha |-> a, size |-> SEARCH_SIZE,
   preference |-> PREFERENCE,
   long |-> [index |-> Get(rl, "_index_used", "None"), total |-> TotalOf(rl),
             error |-> Get(rl, "_error", "None"), kept_filepaths |-> Filepaths(kl)],
   hot |-> [index |-> Get(rh, "_index_used", "None"), total |-> TotalOf(rh),
            error |-> Get(rh, "_error", "None"), kept_filepaths |-> Filepaths(kh)],
   combined_filepaths |-> Filepaths(comb)]

\* ask: `if not context_block.strip()`
NoContext(context) == Strip(context) = <<>>

\* ------------------------------------------------------------ environment
\* The values the collaborators can answer with.
None == "None"

Questions == { <<"e">>, <<"w", "?">> }

RawNames == { <<"E">>, <<" ", "e">>, <<"w">>, <<" ">> }

RawEntityLists == { <<>> } \cup { <<a>> : a \in RawNames }
                  \cup { <<a, b>> : a \in RawNames, b \in {<<"E">>, <<"w">>} }

NerBodies ==
  { [shape |-> "entities", entities |-> l] : l \in RawEntityLists }
  \cup { [shape |-> sh] : sh \in {"no_entities", "null", "not_object", "non_string"} }

NerReplies ==
  { [kind |-> k] : k \in {"transport", "http_error", "non_json"} }
  \cup { [kind |-> "json", body |-> b] : b \in NerBodies }

\* _source of a hit: every field is optional in the code
Sources == { [filepath |-> "a.txt", content |-> <<" ", "x", "y">>],
             [category |-> "tech", content |-> <<" ">>] }

Scores == 1..MaxScore

BackendHit == [_score : Scores, _source : Sources]

\* hits arrive sorted by descending score
Sorted(hits) == \A i \in 1..(Len(hits) - 1) : hits[i]._score >= hits[i + 1]._score

HitLists(n) == UNION { { h \in [1..k -> BackendHit] : Sorted(h) } : k \in 0..n }

StoreReplies ==
  { [kind |-> "ok", hits |-> h, total |-> Len(h)] : h \in HitLists(MaxHits) }
  \cup { [kind |-> k, error |-> "unreachable"] : k \in TransportErrors }
  \cup { [kind |-> "SerializationError", error |-> "bad body"] }

\* what llm.create_chat_completion answers with, stripped; or it raises
LlmReplies == { [kind |-> "text", content |-> "an answer"],
                [kind |-> "text", content |-> Sentinel],
                [kind |-> "raise"] }

OldLine == [ts |-> "earlier"]

\* ------------------------------------------------------------------ state
VARIABLES
  pc,             \* where ask() is
  question,       \* ask's argument
  save_path,      \* ask's argument: None or the path of the audit file
  ALPHA,          \* the module global, as <<numerator, denominator>>
  file,           \* the lines of the audit file
  ner,            \* what the NER service answered
  entities, query,
  reply,          \* per store: what client.search did, once it has
  fut,            \* per store: the future of its search_one task
  res_long, res_hot, keep_long, keep_hot, combined,
  context_block,
  llm_calls,      \* calls of llm.create_chat_completion
  result,         \* what ask returned: [answer, hits]
  exc,            \* the exception that left ask
  trace,          \* history: the steps ask has taken, in order
  first,          \* history: the store whose search task finished first
  call, ret,      \* a function called on its own: the call, the value returned
  cache,          \* load_llm's lru_cache: 0 or the cached instance
  inits,          \* Llama(...) constructions so far
  tpc, local, got, ncalls, overlapped,  \* per calling thread, see load_llm below
  served          \* per calling thread: the instance used for each question served

askVars == <<pc, question, save_path, ALPHA, file, ner, entities, query, reply, fut,
             res_long, res_hot, keep_long, keep_hot, combined, context_block,
             llm_calls, result, exc, trace, first>>
fnVars == <<call, ret>>
llmVars == <<cache, inits, tpc, local, got, ncalls, overlapped, served>>
vars == <<askVars, fnVars, llmVars>>

Threads == 1..MaxCallers

NoCall == [fn |-> "none"]
NoRet == [returned |-> FALSE]

FnIdle == call = NoCall /\ ret = NoRet
LlmIdle ==
  /\ cache = 0 /\ inits = 0 /\ overlapped = FALSE
  /\ tpc = [t \in Threads |-> "idle"]
  /\ local = [t \in Threads |-> 0]
  /\ got = [t \in Threads |-> <<>>]
  /\ ncalls = [t \in Threads |-> 0]
  /\ served = [t \in Threads |-> <<>>]

\* a local of ask that is not bound yet: a dict, a list of dicts, a list of
\* names, a text
Unbound == [unbound |-> TRUE]
UnboundList == <<Unbound>>
UnboundNames == << <<None>> >>
UnboundText == <<None>>

AskLocals ==
  /\ ner = Unbound /\ entities = UnboundNames /\ query = Unbound
  /\ reply = [s \in Stores |-> [kind |-> "none"]]
  /\ fut = [s \in Stores |-> [state |-> "none"]]
  /\ res_long = Unbound /\ res_hot = Unbound
  /\ keep_long = UnboundList /\ keep_hot = UnboundList
  /\ combined = UnboundList /\ context_block = UnboundText
  /\ llm_calls = 0 /\ result = Unbound /\ exc = None /\ trace = <<>> /\ first = None

AskOff ==
  /\ pc = "off" /\ question = None /\ save_path = None /\ file = <<>>
  /\ AskLocals

\* ------------------------------------------------------------------- ask
\* main has loaded the generator and calls ask(llm, q, save_path=args.save_results);
\* the audit file may hold earlier lines.
Init ==
  /\ pc = "post_ner"
  /\ question \in Questions
  /\ save_path \in {None, "audit.jsonl"}
  /\ file = <<OldLine>>
  /\ ALPHA = <<AlphaNum, AlphaDen>>
  /\ AskLocals
  /\ FnIdle /\ LlmIdle

Raise(e) == pc' = "raised" /\ exc' = e

\* post_ner called again, once, when the service could not be reached
PostNerRetry ==
  /\ pc = "post_ner"
  /\ trace' = Append(trace, "PostNer") /\ UNCHANGED first
  /\ UNCHANGED <<fnVars, llmVars>>
  /\ \E r \in NerReplies :
       /\ ner' = r
       /\ IF post_ner(r).raised
          THEN IF r.kind = "transport" /\ trace = <<>>
               THEN pc' = "post_ner" /\ exc' = exc
               ELSE Raise(post_ner(r).exc)
          ELSE pc' = "normalize" /\ exc' = exc
  /\ UNCHANGED <<question, save_path, ALPHA, file, entities, query, reply, fut, res_long,
                 res_hot, keep_long, keep_hot, combined, context_block, llm_calls, result>>

\* 1) ner = post_ner(question)
PostNer ==
  /\ pc = "post_ner"
  /\ trace' = Append(trace, "PostNer") /\ UNCHANGED first
  /\ UNCHANGED <<fnVars, llmVars>>
  /\ \E r \in NerReplies :
       /\ ner' = r
       /\ IF post_ner(r).raised
          THEN Raise(post_ner(r).exc)
          ELSE pc' = "normalize" /\ exc' = exc
  /\ UNCHANGED <<question, save_path, ALPHA, file, entities, query, reply, fut, res_long,
                 res_hot, keep_long, keep_hot, combined, context_block, llm_calls, result>>

\* entities = normalize_entities(ner); the reply's list is dead afterwards
NormalizeEntities ==
  /\ pc = "normalize"
  /\ trace' = Append(trace, "NormalizeEntities") /\ UNCHANGED first
  /\ UNCHANGED <<fnVars, llmVars>>
  /\ LET n == normalize_entities(post_ner(ner).value)
     IN  IF n.raised
         THEN Raise(n.exc) /\ entities' = entities
         ELSE pc' = "build_query" /\ entities' = n.value /\ exc' = exc
  /\ ner' = [kind |-> "json", body |-> [shape |-> ner.body.shape]]
  /\ UNCHANGED <<question, save_path, ALPHA, file, query, reply, fut, res_long,
                 res_hot, keep_long, keep_hot, combined, context_block, llm_calls, result>>

\* 2) query = build_query(question, entities)
BuildQuery ==
  /\ pc = "build_query"
  /\ trace' = Append(trace, "BuildQuery") /\ UNCHANGED first
  /\ UNCHANGED <<fnVars, llmVars>>
  /\ query' = build_query(question, entities)
  /\ pc' = "submit_long"
  /\ UNCHANGED <<question, save_path, ALPHA, file, ner, entities, reply, fut, res_long,
                 res_hot, keep_long, keep_hot, combined, context_block, llm_calls,
                 result, exc>>

IndexOf(s) == IF s = "LONG" THEN LONG_INDEX_NAME ELSE HOT_INDEX_NAME

\* 3) + 4) the clients are built (no network), the pool is entered and
\* fut_long = ex.submit(search_one, "LONG", ...)
SubmitLong ==
  /\ pc = "submit_long"
  /\ trace' = Append(trace, "SubmitLong") /\ UNCHANGED first
  /\ UNCHANGED <<fnVars, llmVars>>
  /\ fut' = [fut EXCEPT !["LONG"] = [state |-> "pending"]]
  /\ pc' = "submit_hot"
  /\ UNCHANGED <<question, save_path, ALPHA, file, ner, entities, query, reply, res_long,
                 res_hot, keep_long, keep_hot, combined, context_block, llm_calls,
                 result, exc>>

\* fut_hot = ex.submit(search_one, "HOT", ...)
SubmitHot ==
  /\ pc = "submit_hot"
  /\ trace' = Append(trace, "SubmitHot") /\ UNCHANGED first
  /\ UNCHANGED <<fnVars, llmVars>>
  /\ fut' = [fut EXCEPT !["HOT"] = [state |-> "pending"]]
  /\ pc' = "result_long"
  /\ UNCHANGED <<question, save_path, ALPHA, file, ner, entities, query, reply, res_long,
                 res_hot, keep_long, keep_hot, combined, context_block, llm_calls,
                 result, exc>>

\* A worker thread runs search_one for store s to its end: the store answers,
\* and the future holds the outcome or the exception.
SearchTask(s) ==
  /\ fut[s].state = "pending"
  /\ first' = IF first = None THEN s ELSE first
  /\ UNCHANGED trace
  /\ UNCHANGED <<fnVars, llmVars>>
  /\ \E r \in StoreReplies :
       /\ reply' = [reply EXCEPT ![s] = r]
       /\ fut' = [fut EXCEPT ![s] =
                    [state |-> "done", outcome |-> search_one(s, IndexOf(s), query, r)]]
  /\ UNCHANGED <<pc, question, save_path, ALPHA, file, ner, entities, query, res_long,
                 res_hot, keep_long, keep_hot, combined, context_block, llm_calls,
                 result, exc>>

\* res_long taken from whichever task finishes first (as_completed), not from fut_long
ResultLongFirstCompleted ==
  /\ pc = "result_long"
  /\ trace' = Append(trace, "ResultLong") /\ UNCHANGED first
  /\ UNCHANGED <<fnVars, llmVars>>
  /\ first # None
  /\ IF fut[first].outcome.raised
     THEN pc' = "pool_exit_raising" /\ exc' = fut[first].outcome.exc /\ res_long' = res_long
     ELSE pc' = "result_hot" /\ res_long' = fut[first].outcome.value /\ exc' = exc
  /\ UNCHANGED <<question, save_path, ALPHA, file, ner, entities, query, reply, fut,
                 res_hot, keep_long, keep_hot, combined, context_block, llm_calls, result>>

\* res_long = fut_long.result(): blocks until the LONG task is done
ResultLong ==
  /\ pc = "result_long"
  /\ trace' = Append(trace, "ResultLong") /\ UNCHANGED first
  /\ UNCHANGED <<fnVars, llmVars>>
  /\ fut["LONG"].state = "done"
  /\ IF fut["LONG"].outcome.raised
     THEN pc' = "pool_exit_raising" /\ exc' = fut["LONG"].outcome.exc /\ res_long' = res_long
     ELSE pc' = "result_hot" /\ res_long' = fut["LONG"].outcome.value /\ exc' = exc
  /\ UNCHANGED <<question, save_path, ALPHA, file, ner, entities, query, reply, fut,
                 res_hot, keep_long, keep_hot, combined, context_block, llm_calls, result>>

\* res_hot = fut_hot.result(): blocks until the HOT task is done
ResultHot ==
  /\ pc = "result_hot"
  /\ trace' = Append(trace, "ResultHot") /\ UNCHANGED first
  /\ UNCHANGED <<fnVars, llmVars>>
  /\ fut["HOT"].state = "done"
  /\ IF fut["HOT"].outcome.raised
     THEN pc' = "pool_exit_raising" /\ exc' = fut["HOT"].outcome.exc /\ res_hot' = res_hot
     ELSE pc' = "pool_exit" /\ res_hot' = fut["HOT"].outcome.value /\ exc' = exc
  /\ UNCHANGED <<question, save_path, ALPHA, file, ner, entities, query, reply, fut,
                 res_long, keep_long, keep_hot, combined, context_block, llm_calls, result>>

\* the end of the with block: ThreadPoolExecutor.__exit__ waits for both tasks
PoolExit ==
  /\ pc \in {"pool_exit", "pool_exit_raising"}
  /\ trace' = Append(trace, "PoolExit") /\ UNCHANGED first
  /\ UNCHANGED <<fnVars, llmVars>>
  /\ \A s \in Stores : fut[s].state = "done"
  /\ pc' = IF pc = "pool_exit" THEN "rank" ELSE "raised"
  /\ UNCHANGED <<question, save_path, ALPHA, file, ner, entities, query, reply, fut,
                 res_long, res_hot, keep_long, keep_hot, combined, context_block,
                 llm_calls, result, exc>>

\* 5) keep_long = rank_hits(res_long); keep_hot = rank_hits(res_hot)
RankBoth ==
  /\ pc = "rank"
  /\ trace' = Append(trace, "RankBoth") /\ UNCHANGED first
  /\ UNCHANGED <<fnVars, llmVars>>
  /\ keep_long' = rank_hits(res_long, ALPHA)
  /\ keep_hot' = rank_hits(res_hot, ALPHA)
  /\ res_long' = RankedInPlace(res_long, ALPHA)
  /\ res_hot' = RankedInPlace(res_hot, ALPHA)
  /\ pc' = "combine"
  /\ UNCHANGED <<question, save_path, ALPHA, file, ner, entities, query, reply, fut,
                 combined, context_block, llm_calls, result, exc>>

\* combined = combine_hits(keep_long, keep_hot, max_total=10)
Combine ==
  /\ pc = "combine"
  /\ trace' = Append(trace, "Combine") /\ UNCHANGED first
  /\ UNCHANGED <<fnVars, llmVars>>
  /\ combined' = combine_hits(keep_long, keep_hot, AskMaxTotal)
  /\ pc' = "save"
  /\ UNCHANGED <<question, save_path, ALPHA, file, ner, entities, query, reply, fut,
                 res_long, res_hot, keep_long, keep_hot, context_block, llm_calls,
                 result, exc>>

\* the record is written only when there is something to show
SaveIfHits ==
  /\ pc = "save"
  /\ trace' = Append(trace, "Save") /\ UNCHANGED first
  /\ UNCHANGED <<fnVars, llmVars>>
  /\ file' = IF save_path # None /\ combined # <<>>
             THEN save_results(file, AuditPayload(question, entities, ALPHA, res_long,
                                                  res_hot, keep_long, keep_hot, combined))
             ELSE file
  /\ pc' = "build_context"
  /\ UNCHANGED <<question, save_path, ALPHA, ner, entities, query, reply, fut, res_long,
                 res_hot, keep_long, keep_hot, combined, context_block, llm_calls,
                 result, exc>>

\* 7) if save_path: save_results(save_path, payload)
Save ==
  /\ pc = "save"
  /\ trace' = Append(trace, "Save") /\ UNCHANGED first
  /\ UNCHANGED <<fnVars, llmVars>>
  /\ file' = IF save_path # None
             THEN save_results(file, AuditPayload(question, entities, ALPHA, res_long,
                                                  res_hot, keep_long, keep_hot, combined))
             ELSE file
  /\ pc' = "build_context"
  /\ UNCHANGED <<question, save_path, ALPHA, ner, entities, query, reply, fut, res_long,
                 res_hot, keep_long, keep_hot, combined, context_block, llm_calls,
                 result, exc>>

\* 8) context_block = build_context(combined, max_chars_per_doc=1500)
BuildContext ==
  /\ pc = "build_context"
  /\ trace' = Append(trace, "BuildContext") /\ UNCHANGED first
  /\ UNCHANGED <<fnVars, llmVars>>
  /\ context_block' = build_context(combined, AskMaxChars)
  /\ pc' = "check_context"
  /\ UNCHANGED <<question, save_path, ALPHA, file, ner, entities, query, reply, fut,
                 res_long, res_hot, keep_long, keep_hot, combined, llm_calls, result, exc>>

\* if not context_block.strip(): return "No relevant information found.", []
ReturnNoInfo ==
  /\ pc = "check_context"
  /\ trace' = Append(trace, "ReturnNoInfo") /\ UNCHANGED first
  /\ UNCHANGED <<fnVars, llmVars>>
  /\ NoContext(context_block)
  /\ result' = [answer |-> Sentinel, hits |-> <<>>]
  /\ pc' = "returned"
  /\ UNCHANGED <<question, save_path, ALPHA, file, ner, entities, query, reply, fut,
                 res_long, res_hot, keep_long, keep_hot, combined, context_block,
                 llm_calls, exc>>

\* answer = generate_answer(llm, question, context_block); return answer, combined
\* generate_answer returns the sentinel without a call for a blank context,
\* else calls the model, which answers or raises.
Generate ==
  /\ pc = "check_context"
  /\ trace' = Append(trace, "Generate") /\ UNCHANGED first
  /\ UNCHANGED <<fnVars, llmVars>>
  /\ ~NoContext(context_block)
  /\ IF Strip(context_block) = <<>>
     THEN /\ result' = [answer |-> Sentinel, hits |-> combined]
          /\ pc' = "returned" /\ UNCHANGED <<llm_calls, exc>>
     ELSE /\ llm_calls' = llm_calls + 1
          /\ \E r \in LlmReplies :
               IF r.kind = "raise"
               THEN Raise("GenerationError") /\ result' = result
               ELSE /\ result' = [answer |-> r.content, hits |-> combined]
                    /\ pc' = "returned" /\ exc' = exc
  /\ UNCHANGED <<question, save_path, ALPHA, file, ner, entities, query, reply, fut,
                 res_long, res_hot, keep_long, keep_hot, combined, context_block>>

Next ==
  \/ PostNer \/ NormalizeEntities \/ BuildQuery \/ SubmitLong \/ SubmitHot
  \/ \E s \in Stores : SearchTask(s)
  \/ ResultLong \/ ResultHot \/ PoolExit \/ RankBoth \/ Combine \/ Save
  \/ BuildContext \/ ReturnNoInfo \/ Generate

Spec == Init /\ [][Next]_vars

\* ask runs on one thread that is never starved, the pool has a worker for each
\* of the two tasks, and every external call returns or fails: some enabled step
\* is eventually taken. Every step moves pc or completes a future.
\* One call of ask, for one question.
InitFair == Init /\ question = <<"w", "?">>

FairSpec == InitFair /\ [][Next]_vars /\ WF_<<pc, fut>>(Next)

\* ------------------------------------------------- rank_hits on its own
\* Outcomes rank_hits can be given: what search_one returns, and dicts that
\* lack "hits", the inner "hits" or the store annotations.
EmptyDict == [x \in {} |-> x]

RankInputs ==
  { search_one(s, IndexOf(s), None, r).value :
      s \in Stores, r \in { x \in StoreReplies : x.kind # "SerializationError" } }
  \cup { EmptyDict, [hits |-> EmptyDict] }
  \cup { [hits |-> [hits |-> h]] : h \in HitLists(MaxHits) }

\* ALPHA in (0, 1]
Alphas == { a \in (1..MaxDen) \X (1..MaxDen) : a[1] <= a[2] }

InitRank ==
  /\ AskOff /\ LlmIdle
  /\ ALPHA \in Alphas
  /\ call \in { [fn |-> "rank_hits", res |-> r] : r \in RankInputs }
  /\ ret = NoRet

RankCall ==
  /\ call.fn = "rank_hits" /\ ~ret.returned
  /\ ret' = [returned |-> TRUE, value |-> rank_hits(call.res, ALPHA)]
  /\ UNCHANGED <<call, askVars, llmVars>>

NextRank == RankCall

SpecRank == InitRank /\ [][NextRank]_vars

\* ----------------------------------------------- combine_hits on its own
\* A kept hit of store s; combine_hits never looks inside one.
Kept(s, i) == [_store_label |-> s, _source |-> [filepath |-> i]]

KeptList(s, n) == [i \in 1..n |-> Kept(s, i)]

InitCombine ==
  /\ AskOff /\ LlmIdle
  /\ ALPHA = <<AlphaNum, AlphaDen>>
  /\ call \in { [fn |-> "combine_hits", hits_a |-> KeptList("LONG", n),
                 hits_b |-> KeptList("HOT", m), max_total |-> c] :
                n \in 0..MaxLen, m \in 0..MaxLen, c \in (-1)..MaxCap }
  /\ ret = NoRet

CombineCall ==
  /\ call.fn = "combine_hits" /\ ~ret.returned
  /\ ret' = [returned |-> TRUE, value |-> combine_hits(call.hits_a, call.hits_b, call.max_total)]
  /\ UNCHANGED <<call, askVars, llmVars>>

NextCombine == CombineCall

SpecCombine == InitCombine /\ [][NextCombine]_vars

\* ------------------------------------------------ build_query on its own
QueryQuestions ==
  { <<>>, <<"e">>, <<"w">>, <<"e", " ", "w">>, <<"w", "?">>, <<"E", " ", "w">> }

EntityNames == { <<"e">>, <<"w">>, <<"e", " ", "w">> }

\* what normalize_entities returns: distinct names, at most MaxEntities of them
MaxEntities == 2

EntityLists ==
  UNION { { l \in [1..k -> EntityNames] : \A i, j \in 1..k : i # j => l[i] # l[j] } :
          k \in 0..MaxEntities }

InitQuery ==
  /\ AskOff /\ LlmIdle
  /\ ALPHA = <<AlphaNum, AlphaDen>>
  /\ call \in { [fn |-> "build_query", question |-> q, entities |-> l] :
                q \in QueryQuestions, l \in EntityLists }
  /\ ret = NoRet

QueryCall ==
  /\ call.fn = "build_query" /\ ~ret.returned
  /\ ret' = [returned |-> TRUE, value |-> build_query(call.question, call.entities)]
  /\ UNCHANGED <<call, askVars, llmVars>>

NextQuery == QueryCall

SpecQuery == InitQuery /\ [][NextQuery]_vars

\* ---------------------------------------------------------------- load_llm
\* @lru_cache(maxsize=1) around Llama(...): a call looks the key up; on a miss
\* it runs the function outside the cache's lock and then stores the result,
\* unless another call has stored one meanwhile; it returns its own result.
\* load_llm without the decorator: no call finds a cached instance
CacheHitNever(c) == FALSE

\* the cache holds 0 for no entry, else the instance (instances are numbered from 1)
CacheHit(c) == c # 0

\* thread t calls load_llm(): the lookup
LlmLookup(t) ==
  /\ tpc[t] = "idle" /\ ncalls[t] < MaxCalls
  /\ ncalls' = [ncalls EXCEPT ![t] = @ + 1]
  /\ overlapped' = (overlapped \/ \E u \in Threads \ {t} : tpc[u] # "idle")
  /\ IF CacheHit(cache)
     THEN got' = [got EXCEPT ![t] = Append(@, cache)] /\ tpc' = tpc
     ELSE got' = got /\ tpc' = [tpc EXCEPT ![t] = "construct"]
  /\ UNCHANGED <<cache, inits, local, served, askVars, fnVars>>

\* the miss runs Llama(...): a new instance
LlmConstruct(t) ==
  /\ tpc[t] = "construct"
  /\ inits' = inits + 1
  /\ local' = [local EXCEPT ![t] = inits + 1]
  /\ tpc' = [tpc EXCEPT ![t] = "store"]
  /\ UNCHANGED <<cache, got, ncalls, overlapped, served, askVars, fnVars>>

\* the result is stored if the key is still absent, and returned
LlmStore(t) ==
  /\ tpc[t] = "store"
  /\ cache' = IF ~CacheHit(cache) THEN local[t] ELSE cache
  /\ got' = [got EXCEPT ![t] = Append(@, local[t])]
  /\ tpc' = [tpc EXCEPT ![t] = "idle"]
  /\ UNCHANGED <<inits, local, ncalls, overlapped, served, askVars, fnVars>>

\* main: ask(llm, q, ...) with the instance the thread's last load_llm() returned
LlmServe(t) ==
  /\ tpc[t] = "idle" /\ got[t] # <<>> /\ Len(served[t]) < MaxQuestions
  /\ served' = [served EXCEPT ![t] = Append(@, got[t][Len(got[t])])]
  /\ UNCHANGED <<cache, inits, tpc, local, got, ncalls, overlapped, askVars, fnVars>>

InitLlm ==
  /\ AskOff /\ FnIdle /\ LlmIdle
  /\ ALPHA = <<AlphaNum, AlphaDen>>

NextLlm ==
  \/ \E t \in Threads : LlmLookup(t)
  \/ \E t \in Threads : LlmConstruct(t)
  \/ \E t \in Threads : LlmStore(t)
  \/ \E t \in Threads : LlmServe(t)

SpecLlm == InitLlm /\ [][NextLlm]_vars

\* ---------------------------------------------- build_context on its own
\* budgets given to build_context alone are 0..MaxBudget, lists have up to
\* MaxSections hits
MaxBudget == 3
MaxSections == 2

\* combined hits as build_context can meet them: a body longer than the budget,
\* a body with blanks around it, a blank body, no body, no filepath, no _source,
\* no store label
ContextHits ==
  { [_store_label |-> "LONG", _source |-> [filepath |-> "a.txt", content |-> <<"x", "y", "x", "y">>]],
    [_store_label |-> "HOT", _source |-> [filepath |-> "b.txt", content |-> <<" ", "x", "y", " ">>]],
    [_store_label |-> "HOT", _source |-> [filepath |-> "a.txt", content |-> <<" ">>]],
    [_store_label |-> "LONG", _source |-> [filepath |-> "b.txt", content |-> <<>>]],
    [_store_label |-> "LONG", _source |-> [filepath |-> "a.txt"]],
    [_store_label |-> "HOT", _source |-> [content |-> <<"y">>]],
    [_store_label |-> "LONG"],
    [_source |-> [filepath |-> "b.txt", content |-> <<"x", "y">>]] }

ContextLists == UNION { [1..k -> ContextHits] : k \in 0..MaxSections }

InitContext ==
  /\ AskOff /\ LlmIdle
  /\ ALPHA = <<AlphaNum, AlphaDen>>
  /\ call \in { [fn |-> "build_context", hits |-> l, max_chars_per_doc |-> b] :
                l \in ContextLists, b \in 0..MaxBudget }
  /\ ret = NoRet

ContextCall ==
  /\ call.fn = "build_context" /\ ~ret.returned
  /\ ret' = [returned |-> TRUE, value |-> build_context(call.hits, call.max_chars_per_doc)]
  /\ UNCHANGED <<call, askVars, llmVars>>

NextContext == ContextCall

SpecContext == InitContext /\ [][NextContext]_vars

\* ------------------------------------- steps 5 of ask, two executions
\* ask's ranking and combination (keep_long, keep_hot, combined) with both
\* stores thresholded against the larger of the two top scores
rank_and_combine_shared_top(rl, rh, a) ==
  LET hl == HitsOf(rl)
      hh == HitsOf(rh)
      top == Max(IF hl = <<>> THEN 0 ELSE hl[1]._score, IF hh = <<>> THEN 0 ELSE hh[1]._score)
      keep(res) ==
        LET hits == HitsOf(res)
            upto[i \in 0..Len(hits)] ==
              IF i = 0 THEN <<>>
              ELSE IF AtLeast(hits[i]._score, a, top)
                   THEN Append(upto[i - 1], hits[i]) ELSE upto[i - 1]
        IN  [i \in 1..Len(upto[Len(hits)]) |-> Annotate(upto[Len(hits)][i], res)]
  IN  [keep_long |-> keep(rl), keep_hot |-> keep(rh),
       combined |-> combine_hits(keep(rl), keep(rh), AskMaxTotal)]

\* keep_long = rank_hits(res_long); keep_hot = rank_hits(res_hot);
\* combined = combine_hits(keep_long, keep_hot, max_total=10)
rank_and_combine(rl, rh, a) ==
  [keep_long |-> rank_hits(rl, a), keep_hot |-> rank_hits(rh, a),
   combined |-> combine_hits(rank_hits(rl, a), rank_hits(rh, a), AskMaxTotal)]

\* the outcomes store s can hand to ranking: what search_one returns for an
\* answer (documents of one kind, any scores) or for a transport failure
PairReplies ==
  { [kind |-> "ok", hits |-> h, total |-> Len(h)] :
      h \in { l \in HitLists(MaxHits) :
                \A i \in 1..Len(l) : "filepath" \in DOMAIN l[i]._source } }
  \cup { [kind |-> "ConnectionTimeout", error |-> "unreachable"] }

PairOutcomes(s) == { search_one(s, IndexOf(s), None, r).value : r \in PairReplies }

\* Two executions of ask reach step 5: the first with the outcomes long and hot,
\* the second with the outcome of one store, varied, replaced by alt.
InitPair ==
  /\ AskOff /\ LlmIdle
  /\ ALPHA = <<AlphaNum, AlphaDen>>
  /\ call \in [fn : {"rank_and_combine"}, long : PairOutcomes("LONG"), hot : PairOutcomes("HOT"),
                varied : Stores, alt : PairOutcomes("LONG") \cup PairOutcomes("HOT")]
  /\ call.alt._store_label = call.varied
  /\ ret = NoRet

PairCall ==
  /\ call.fn = "rank_and_combine" /\ ~ret.returned
  /\ ret' = [returned |-> TRUE,
             value |-> << rank_and_combine(call.long, call.hot, ALPHA),
                          rank_and_combine(IF call.varied = "LONG" THEN call.alt ELSE call.long,
                                           IF call.varied = "HOT" THEN call.alt ELSE call.hot,
                                           ALPHA) >>]
  /\ UNCHANGED <<call, askVars, llmVars>>

NextPair == PairCall

SpecPair == InitPair /\ [][NextPair]_vars

\* ================================================================ claims
Did(step) == \E i \in 1..Len(trace) : trace[i] = step

AfterJoin == {"RankBoth", "Combine", "Save", "BuildContext", "ReturnNoInfo", "Generate"}

BothDone == \A s \in Stores : fut[s].state = "done"

\* the hits as the backend sent them: a kept hit without its annotations
Bare(h) == [_score |-> h._score, _source |-> h._source]

\* C1: a store whose search fails with a transport error (a timeout included)
\* yields a zero-hit outcome with a diagnostic; the other store's task still
\* finishes with the outcome its own reply decides; ask does not abort on it and
\* the other store's hits flow through ranking and combination.
StoreFailureIsolated ==
  \A s \in Stores :
    (fut[s].state = "done" /\ reply[s].kind \in TransportErrors) =>
      LET o == Other(s) IN
      /\ ~fut[s].outcome.raised
      /\ HitsOf(fut[s].outcome.value) = <<>>
      /\ TotalOf(fut[s].outcome.value) = 0
      /\ "_error" \in DOMAIN fut[s].outcome.value
      /\ fut[s].outcome.value._error[1] = reply[s].kind
      /\ (pc \in {"raised", "pool_exit_raising"}) =>
           \/ exc = "GenerationError"
           \/ exc = "SerializationError" /\ reply[o].kind = exc
      /\ (fut[o].state = "done" /\ reply[o].kind = "ok") =>
           /\ ~fut[o].outcome.raised
           /\ fut[o].outcome.value.hits.hits = reply[o].hits
           /\ fut[o].outcome.value.hits.total.value = reply[o].total
           /\ fut[o].outcome.value._store_label = o
           /\ "_error" \notin DOMAIN fut[o].outcome.value
           /\ pc \notin {"raised", "pool_exit_raising"} \/ exc = "GenerationError"
           /\ Did("RankBoth") =>
                /\ (IF s = "LONG" THEN keep_long ELSE keep_hot) = <<>>
                /\ LET k == IF o = "LONG" THEN keep_long ELSE keep_hot
                   IN  /\ reply[o].hits # <<>> => (k # <<>> /\ Bare(k[1]) = reply[o].hits[1])
                       /\ Did("Combine") => combined = k
                       /\ Did("BuildContext") => (k # <<>> <=> context_block # <<>>)
           /\ pc = "returned" =>
                IF reply[o].hits = <<>> THEN result.hits = <<>> ELSE Len(result.hits) >= 1

\* C1 witness: LONG timed out, HOT answered two hits that both pass, and ask
\* returned them in HOT's order.
StoreFailureWitness ==
  /\ pc = "returned"
  /\ reply["LONG"].kind = "ConnectionTimeout"
  /\ reply["HOT"].kind = "ok" /\ Len(reply["HOT"].hits) = 2
  /\ Len(result.hits) = 2
  /\ \A i \in 1..2 : Bare(result.hits[i]) = reply["HOT"].hits[i]

\* C2: nothing after the dual search (ranking, combination, audit, context,
\* generation, return) happens before both search tasks are done; ranking gets
\* the LONG outcome as res_long and the HOT outcome as res_hot, whichever task
\* finished first.
JoinBeforeRanking ==
  /\ (\E i \in 1..Len(trace) : trace[i] \in AfterJoin) => BothDone
  /\ pc \in {"rank", "combine", "save", "build_context", "check_context", "returned"}
       => BothDone
  /\ (pc = "raised" /\ Did("SubmitLong")) => BothDone
  /\ Did("ResultLong") /\ pc # "pool_exit_raising" /\ ~(pc = "raised" /\ ~Did("ResultHot"))
       => res_long._store_label = "LONG"
  /\ Did("RankBoth") =>
       /\ res_long._store_label = "LONG" /\ res_hot._store_label = "HOT"
       /\ keep_long = rank_hits(fut["LONG"].outcome.value, ALPHA)
       /\ keep_hot = rank_hits(fut["HOT"].outcome.value, ALPHA)
       /\ \A i \in 1..Len(keep_long) : keep_long[i]._store_label = "LONG"
       /\ \A i \in 1..Len(keep_hot) : keep_hot[i]._store_label = "HOT"
  /\ (Did("Combine") /\ keep_long # <<>>) => combined[1] = keep_long[1]

\* C2 witness: HOT answered first, both stores had hits, and the returned list
\* still starts with LONG's top hit followed by HOT's.
JoinWitness ==
  /\ pc = "returned" /\ first = "HOT"
  /\ Len(result.hits) >= 2
  /\ result.hits[1]._store_label = "LONG" /\ result.hits[2]._store_label = "HOT"

\* C3: when the combined result is empty the generator is never called and ask
\* returns the sentinel with an empty hit list; the generator is called only
\* after a non-blank context was built from a non-empty combined result.
NoInfoShortCircuit ==
  /\ (Did("Combine") /\ combined = <<>>) =>
       /\ llm_calls = 0
       /\ pc # "raised"
       /\ ~Did("Generate")
       /\ pc = "returned" => (result.answer = Sentinel /\ result.hits = <<>>)
  /\ llm_calls > 0 =>
       /\ Did("BuildContext")
       /\ Strip(context_block) # <<>>
       /\ combined # <<>>
  /\ llm_calls <= 1

\* C3 witness: both stores failed softly and ask returned the sentinel.
NoInfoWitness ==
  /\ pc = "returned"
  /\ \A s \in Stores : reply[s].kind \in TransportErrors
  /\ result.answer = Sentinel /\ result.hits = <<>> /\ llm_calls = 0

\* an NER reply that is a failure: transport error, non-2xx, non-JSON, or a
\* JSON body that is not {"entities": [str, ...]}
NerFailed(r) == r.kind # "json" \/ r.body.shape # "entities"

\* C4: whenever the NER call fails, ask ends with a fatal error, no entity list
\* is used and no later stage runs.
NerFailureIsFatal ==
  (Did("PostNer") /\ NerFailed(ner)) =>
    /\ pc \in {"normalize", "raised"}
    /\ ~Did("BuildQuery") /\ ~Did("SubmitLong") /\ ~Did("Save") /\ ~Did("Generate")
    /\ \A s \in Stores : fut[s].state = "none"
    /\ llm_calls = 0 /\ file = <<OldLine>>

\* ---- rank_hits
Qualifies(hits, a, i) == hits[i]._score * a[2] >= a[1] * hits[1]._score

QualifyingIndexes(hits, a) == { i \in 1..Len(hits) : Qualifies(hits, a, i) }

\* the j-th smallest element of a set of numbers
NthOf(S, j) == CHOOSE i \in S : Cardinality({ k \in S : k < i }) = j - 1

\* C5: for ALPHA in (0, 1] and hits sorted by descending score, rank_hits returns
\* exactly the hits with score >= ALPHA * top1, in their original order; so it
\* keeps hit[0], keeps nothing below the threshold, and returns [] for an
\* outcome with no hits or no hits field.
RankThreshold ==
  ret.returned =>
    LET hits == HitsOf(call.res)
        kept == ret.value
        Q == QualifyingIndexes(hits, ALPHA)
    IN  /\ hits = <<>> => kept = <<>>
        /\ ("hits" \notin DOMAIN call.res \/ "hits" \notin DOMAIN call.res.hits) => kept = <<>>
        /\ hits # <<>> =>
             /\ Sorted(hits)
             /\ kept # <<>> /\ Bare(kept[1]) = hits[1]
             /\ \A j \in 1..Len(kept) :
                  kept[j]._score * ALPHA[2] >= ALPHA[1] * hits[1]._score
             /\ Len(kept) = Cardinality(Q)
             /\ \A j \in 1..Len(kept) : Bare(kept[j]) = hits[NthOf(Q, j)]

\* C5 witness: two hits, ALPHA = 1/2, and the second hit fell below the threshold.
RankWitness ==
  /\ ret.returned /\ ALPHA = <<1, 2>>
  /\ Len(HitsOf(call.res)) = 2 /\ Len(ret.value) = 1
  /\ HitsOf(call.res)[2]._score * 2 < HitsOf(call.res)[1]._score

\* ---- combine_hits
FromLong(h) == h._store_label = "LONG"
FromHot(h) == h._store_label = "HOT"

\* A[0], B[0], A[1], B[1], ... with the rest of the longer list at the end
RECURSIVE Interleave(_, _)
Interleave(A, B) ==
  IF A = <<>> THEN B
  ELSE IF B = <<>> THEN A
  ELSE <<Head(A), Head(B)>> \o Interleave(Tail(A), Tail(B))

\* the first n elements
FirstN(s, n) == [i \in 1..Min(Max(n, 0), Len(s)) |-> s[i]]

\* C6 as stated: the length is min(maxTotal, |A| + |B|) for every integer maxTotal.
CombineLengthAnyCap ==
  ret.returned =>
    Len(ret.value) = Min(call.max_total, Len(call.hits_a) + Len(call.hits_b))

\* C6 amended: combine_hits returns, and the length is min(maxTotal, |A| + |B|)
\* for maxTotal >= 0 and 0 for a negative maxTotal; combine_hits([], [], n) = [];
\* with the cap ask passes the result never has more than 10 hits.
CombineLength ==
  /\ ~ret.returned => ENABLED CombineCall
  /\ ret.returned =>
       /\ Len(ret.value) = Min(Max(call.max_total, 0), Len(call.hits_a) + Len(call.hits_b))
       /\ (call.hits_a = <<>> /\ call.hits_b = <<>>) => ret.value = <<>>
       /\ call.max_total = AskMaxTotal => Len(ret.value) <= 10

\* C6 witness: more than 10 hits were kept in all and the cap of ask cut them to 10.
CombineLengthWitness ==
  /\ ret.returned /\ call.max_total = AskMaxTotal
  /\ Len(call.hits_a) + Len(call.hits_b) > AskMaxTotal
  /\ Len(ret.value) = AskMaxTotal

\* C7: the result is the first maxTotal elements of A[0], B[0], A[1], B[1], ...
\* with the longer list drained at the end: it starts with A's top hit, holds a
\* prefix of A and a prefix of B in their own order, and for an empty A is the
\* first min(maxTotal, |B|) elements of B.
CombineInterleave ==
  ret.returned =>
    LET A == call.hits_a
        B == call.hits_b
        out == ret.value
        outA == SelectSeq(out, FromLong)
        outB == SelectSeq(out, FromHot)
    IN  /\ out = FirstN(Interleave(A, B), call.max_total)
        /\ (A # <<>> /\ call.max_total >= 1) => (out # <<>> /\ out[1] = A[1])
        /\ Len(outA) <= Len(A) /\ outA = SubSeq(A, 1, Len(outA))
        /\ Len(outB) <= Len(B) /\ outB = SubSeq(B, 1, Len(outB))
        /\ A = <<>> => out = FirstN(B, Min(call.max_total, Len(B)))

\* C7 witness: A ran out after one hit and B was drained: A[0], B[0], B[1], B[2].
CombineInterleaveWitness ==
  /\ ret.returned
  /\ Len(call.hits_a) = 1 /\ Len(call.hits_b) = 3 /\ call.max_total = 5
  /\ ret.value = <<call.hits_a[1], call.hits_b[1], call.hits_b[2], call.hits_b[3]>>

\* C8: for maxTotal >= 0 the result holds at least min(|A|, ceil(maxTotal / 2))
\* hits of A and at least min(|B|, floor(maxTotal / 2)) hits of B, and a hit is
\* left out only when the cap is reached.
CombineFair ==
  (ret.returned /\ call.max_total >= 0) =>
    LET nA == Len(SelectSeq(ret.value, FromLong))
        nB == Len(SelectSeq(ret.value, FromHot))
    IN  /\ nA >= Min(Len(call.hits_a), (call.max_total + 1) \div 2)
        /\ nB >= Min(Len(call.hits_b), call.max_total \div 2)
        /\ Len(ret.value) < call.max_total =>
             (nA = Len(call.hits_a) /\ nB = Len(call.hits_b))

\* C8 witness: A kept six hits and B two, the cap is 4, and both of B's are in.
CombineFairWitness ==
  /\ ret.returned
  /\ Len(call.hits_a) = 6 /\ Len(call.hits_b) = 2 /\ call.max_total = 4
  /\ Len(SelectSeq(ret.value, FromHot)) = 2

\* ---- build_query
\* the entities with single spaces between them
RECURSIVE SpaceJoined(_)
SpaceJoined(ents) ==
  IF Len(ents) = 1 THEN ents[1]
  ELSE SpaceJoined(SubSeq(ents, 1, Len(ents) - 1)) \o <<" ">> \o ents[Len(ents)]

QueryFields == <<"content^1.0", "category^0.5">>

\* the texts and terms the clauses of an entity-path query hold
ClauseTexts(q) ==
  LET strict == q.dis_max.queries[1].bool.should
      relaxed == q.dis_max.queries[2].bool.should
  IN  Range(strict[1].terms_set.explicit_terms.terms)
      \cup Range(relaxed[1].terms.explicit_terms)
      \cup { strict[2].match.explicit_terms_text.query, strict[3].multi_match.query,
             relaxed[2].match.explicit_terms_text, relaxed[3].multi_match.query }

Instances == UNION { Range(got[t]) : t \in Threads }

\* C10 as stated: one initialization and one instance, concurrent callers included.
LlmSingleton == inits <= 1 /\ Cardinality(Instances) <= 1

\* C10 amended: as long as no call of load_llm begins while another call is
\* still running, the generator is initialized exactly once, however many calls
\* and questions there are, and every caller obtains and uses that instance.
LlmSingletonSequential ==
  ~overlapped =>
    /\ inits <= 1
    /\ Cardinality(Instances) <= 1
    /\ (\E t \in Threads : got[t] # <<>>) => (inits = 1 /\ Instances = {cache})
    /\ \A t \in Threads : \A i \in 1..Len(served[t]) : served[t][i] = cache

\* C10 witness: every thread made all its calls one after another, none
\* overlapping, and served all its questions.
LlmSingletonWitness ==
  /\ ~overlapped
  /\ \A t \in Threads : Len(got[t]) = MaxCalls /\ Len(served[t]) = MaxQuestions
  /\ inits = 1

\* ---- ask, end to end
\* the steps of ask in program order; the two endings share the last place
StepOrder ==
  <<"PostNer", "NormalizeEntities", "BuildQuery", "SubmitLong", "SubmitHot", "ResultLong",
    "ResultHot", "PoolExit", "RankBoth", "Combine", "Save", "BuildContext">>

Position(step) ==
  IF step \in {"ReturnNoInfo", "Generate"} THEN Len(StepOrder) + 1
  ELSE CHOOSE i \in 1..Len(StepOrder) : StepOrder[i] = step

LastStep == trace[Len(trace)]

Ended == pc \in {"returned", "raised"}

ExtractorErrors == {"RequestException", "SystemExit", "TypeError", "AttributeError"}

\* what the generator can answer with
AnswerTexts == { r.content : r \in { x \in LlmReplies : x.kind = "text" } }

\* the steps taken so far are in program order, none twice and none skipped
\* (a task that raised skips the rest of the with block, never a later stage)
InProgramOrder ==
  /\ \A i \in 1..(Len(trace) - 1) : Position(trace[i]) < Position(trace[i + 1])
  /\ \A i \in 1..Len(trace) :
       \/ Position(trace[i]) = i
       \/ trace[i] = "PoolExit" /\ i = 7 /\ pc = "raised"

\* ask has ended in one outcome: the sentinel, an answer, or an exception
OneOutcome ==
  /\ pc # "returned" => result = Unbound
  /\ pc \notin {"raised", "pool_exit_raising"} => exc = None
  /\ pc = "returned" =>
       /\ Len(trace) = Len(StepOrder) + 1
       /\ \/ /\ LastStep = "ReturnNoInfo" /\ llm_calls = 0
             /\ result = [answer |-> Sentinel, hits |-> <<>>]
          \/ /\ LastStep = "Generate" /\ llm_calls = 1
             /\ result.answer \in AnswerTexts
             /\ result.hits = combined /\ combined # <<>>
  /\ pc = "raised" =>
       /\ exc # None
       /\ \/ LastStep \in {"PostNer", "NormalizeEntities"} /\ exc \in ExtractorErrors
          \/ /\ LastStep = "PoolExit" /\ exc = "SerializationError"
             /\ \E s \in Stores : reply[s].kind = "SerializationError"
          \/ LastStep = "Generate" /\ exc = "GenerationError"

\* transport failures of the stores, of one or of both, do not end ask in an exception
TransportFailureNotFatal ==
  (pc = "raised" /\ Did("SubmitLong") /\ \A s \in Stores : reply[s].kind \in TransportErrors \cup {"ok"})
    => exc = "GenerationError"

SectionStarts(text) == { i \in 1..Len(text) : text[i] = "---" }

\* the k-th section of a context: from its delimiter to the next one
SectionAt(text, k) ==
  LET S == SectionStarts(text)
      from == NthOf(S, k)
      to == IF k < Cardinality(S) THEN NthOf(S, k + 1) - 1 ELSE Len(text)
  IN  SubSeq(text, from, to)

IsBodyChar(c) == c # "\n"

\* the body a section shows: what follows its three header lines
ShownBody(section) == SelectSeq(SubSeq(section, 11, Len(section)), IsBodyChar)

\* the body of a hit without the blanks around it; none for a missing body
BodyOf(h) ==
  IF "_source" \in DOMAIN h /\ "content" \in DOMAIN h._source THEN Strip(h._source.content)
  ELSE <<>>

\* C12: for a budget >= 0, build_context returns one section per hit, in the
\* order of the hits, each with the hit's store label and document id and the
\* first min(budget, length) characters of its body; so the context is empty,
\* and blank, exactly when there are no hits, even if every body is blank or
\* missing.
ContextSections ==
  ret.returned =>
    LET hits == call.hits
        out == ret.value
    IN  /\ Cardinality(SectionStarts(out)) = Len(hits)
        /\ out = <<>> <=> hits = <<>>
        /\ NoContext(out) <=> hits = <<>>
        /\ hits # <<>> => out[1] = "---"
        /\ \A k \in 1..Len(hits) :
             LET sec == SectionAt(out, k)
                 h == hits[k]
             IN  /\ SubSeq(sec, 1, 4) = <<"---", "\n", "Store:", " ">>
                 /\ sec[5] = (IF "_store_label" \in DOMAIN h THEN h._store_label ELSE "?")
                 /\ SubSeq(sec, 6, 8) = <<"\n", "Doc:", " ">>
                 /\ sec[9] = (IF "_source" \in DOMAIN h /\ "filepath" \in DOMAIN h._source
                              THEN h._source.filepath ELSE "<unknown>")
                 /\ sec[10] = "\n"
                 /\ Len(ShownBody(sec)) <= call.max_chars_per_doc
                 /\ Len(ShownBody(sec)) = Min(call.max_chars_per_doc, Len(BodyOf(h)))
                 /\ ShownBody(sec) = SubSeq(BodyOf(h), 1, Len(ShownBody(sec)))

\* C12 witness: two hits, the first with a body longer than the budget and the
\* second with no body at all; the context has two sections and the first shows
\* three characters.
ContextSectionsWitness ==
  /\ ret.returned /\ call.max_chars_per_doc = 3 /\ Len(call.hits) = 2
  /\ Len(BodyOf(call.hits[1])) = 4
  /\ "_source" \in DOMAIN call.hits[2] /\ "content" \notin DOMAIN call.hits[2]._source
  /\ Cardinality(SectionStarts(ret.value)) = 2
  /\ ShownBody(SectionAt(ret.value, 1)) = <<"x", "y", "x">>
  /\ ShownBody(SectionAt(ret.value, 2)) = <<>>

\* ---- ranking and combination, two executions
\* which store each place of a combined list came from
Origins(hits) == [i \in 1..Len(hits) |-> hits[i]._store_label]

\* C13: of two executions that differ only in the outcome of one store (its
\* scores, its number of hits, or its failure), the list kept for the other
\* store is the same; each kept list is what the store's own top score and
\* alpha select from its own hits; and the places the two stores take in the
\* combined list depend on how many hits each kept, never on a score.
ThresholdIndependence ==
  ret.returned =>
    LET r1 == ret.value[1]
        r2 == ret.value[2]
        long2 == IF call.varied = "LONG" THEN call.alt ELSE call.long
        hot2 == IF call.varied = "HOT" THEN call.alt ELSE call.hot
    IN  /\ call.varied = "HOT" => r1.keep_long = r2.keep_long
        /\ call.varied = "LONG" => r1.keep_hot = r2.keep_hot
        /\ Len(r1.keep_long) = Cardinality(QualifyingIndexes(HitsOf(call.long), ALPHA))
        /\ Len(r1.keep_hot) = Cardinality(QualifyingIndexes(HitsOf(call.hot), ALPHA))
        /\ Len(r2.keep_long) = Cardinality(QualifyingIndexes(HitsOf(long2), ALPHA))
        /\ Len(r2.keep_hot) = Cardinality(QualifyingIndexes(HitsOf(hot2), ALPHA))
        /\ (Len(r1.keep_long) = Len(r2.keep_long) /\ Len(r1.keep_hot) = Len(r2.keep_hot))
             => Origins(r1.combined) = Origins(r2.combined)

\* C13 witness: LONG answered hits scored 2 and 1; HOT answered two hits scored
\* 3 in one execution and timed out in the other; LONG keeps both of its hits
\* in both executions, though the lower one is under half of HOT's top score.
ThresholdIndependenceWitness ==
  /\ ret.returned /\ call.varied = "HOT"
  /\ Len(HitsOf(call.long)) = 2 /\ HitsOf(call.long)[1]._score = 2
  /\ HitsOf(call.long)[2]._score = 1
  /\ Len(HitsOf(call.hot)) = 2 /\ HitsOf(call.hot)[2]._score = 3
  /\ "_error" \in DOMAIN call.alt
  /\ Len(ret.value[1].keep_long) = 2 /\ ret.value[1].keep_long = ret.value[2].keep_long
  /\ Len(ret.value[1].keep_hot) = 2 /\ ret.value[2].keep_hot = <<>>

\* ---- the audit record
\* the record this call of ask appended: the line after the earlier ones
Record == file[Len(file)]

Appended == Did("Save") /\ save_path # None

\* the document id of a hit: its filepath, None when it has none
DocId(h) ==
  IF "_source" \in DOMAIN h /\ "filepath" \in DOMAIN h._source THEN h._source.filepath
  ELSE None

\* the bodies of the documents the stores answered with
Bodies ==
  UNION { { reply[s].hits[i]._source.content : i \in 1..Len(reply[s].hits) } :
          s \in { x \in Stores : reply[x].kind = "ok" } }

\* what the record says of store s, given the outcome res and the kept list
StoreEntryExact(entry, s, res, keep) ==
  /\ DOMAIN entry = {"index", "total", "error", "kept_filepaths"}
  /\ entry.index = IndexOf(s)
  /\ entry.total = (IF reply[s].kind = "ok" THEN reply[s].total ELSE 0)
  /\ IF reply[s].kind = "ok" THEN entry.error = None
     ELSE entry.error = res._error /\ entry.error \notin Bodies
  /\ Len(entry.kept_filepaths) = Len(keep)
  /\ \A i \in 1..Len(keep) : entry.kept_filepaths[i] = DocId(keep[i])
  /\ entry.kept_filepaths \notin Bodies

\* C14: the record ask appends holds the timestamp, the question, the entities,
\* alpha, size and the preference token, per store the index name, the total,
\* the error string and the document ids of the kept hits, and the document ids
\* of the combined hits, and nothing else; the id lists are those of keep_long,
\* keep_hot and combined, in their order; no field is a document body.
AuditRecordContentFree ==
  Appended =>
    /\ Len(file) = 2
    /\ DOMAIN Record = {"ts", "question", "entities", "alpha", "size", "preference",
                        "long", "hot", "combined_filepaths"}
    /\ Record.question = question /\ Record.entities = entities
    /\ Record.alpha = ALPHA /\ Record.size = SEARCH_SIZE /\ Record.preference = PREFERENCE
    /\ StoreEntryExact(Record.long, "LONG", res_long, keep_long)
    /\ StoreEntryExact(Record.hot, "HOT", res_hot, keep_hot)
    /\ Len(Record.combined_filepaths) = Len(combined)
    /\ \A i \in 1..Len(combined) : Record.combined_filepaths[i] = DocId(combined[i])
    /\ Record.combined_filepaths \notin Bodies
    /\ Record.question \notin Bodies
    /\ \A i \in 1..Len(Record.entities) : Record.entities[i] \notin Bodies
    /\ (pc = "returned" /\ LastStep = "Generate") =>
         /\ Len(result.hits) = Len(Record.combined_filepaths)
         /\ \A i \in 1..Len(result.hits) : Record.combined_filepaths[i] = DocId(result.hits[i])

\* C14 witness: both stores answered two documents with bodies, LONG kept both
\* and HOT one, and the record names the three kept documents in the
\* combined order, one of them without a filepath.
AuditRecordWitness ==
  /\ Appended /\ pc = "returned"
  /\ \A s \in Stores : reply[s].kind = "ok"
  /\ Len(keep_long) = 2 /\ Len(reply["HOT"].hits) = 2 /\ Len(keep_hot) = 1
  /\ Record.long.kept_filepaths = <<"a.txt", None>>
  /\ Record.hot.kept_filepaths = <<"a.txt">>
  /\ Record.combined_filepaths = <<"a.txt", "a.txt", None>>
  /\ Bodies = { <<" ", "x", "y">>, <<" ">> }

\* ---- when the audit record is written
\* the place of a step in the trace, 0 if it was not taken
PlaceOf(step) ==
  IF Did(step) THEN CHOOSE i \in 1..Len(trace) : trace[i] = step ELSE 0

\* a step leaves the lines of the file alone or adds one line at the end, and
\* it adds one only at step 7 of a call that was given a path
AppendOnly ==
  \/ file' = file
  \/ /\ pc = "save" /\ save_path # None
     /\ Len(file') = Len(file) + 1
     /\ SubSeq(file', 1, Len(file)) = file

RecordTiming ==
  /\ Len(file) \in {1, 2} /\ file[1] = OldLine
  /\ save_path = None => file = <<OldLine>>
  /\ save_path # None => (Len(file) = 2 <=> Did("Save"))
  /\ Did("Save") =>
       /\ Did("NormalizeEntities") /\ Did("PoolExit") /\ Did("Combine")
       /\ PlaceOf("Combine") < PlaceOf("Save")
       /\ Did("BuildContext") => PlaceOf("Save") < PlaceOf("BuildContext")
       /\ Did("ReturnNoInfo") => PlaceOf("Save") < PlaceOf("ReturnNoInfo")
       /\ Did("Generate") => PlaceOf("Save") < PlaceOf("Generate")
  /\ (Did("BuildContext") \/ Did("ReturnNoInfo") \/ Did("Generate") \/ llm_calls > 0)
       => Did("Save")
  /\ (pc = "save" /\ save_path # None) => (file = <<OldLine>> /\ llm_calls = 0)
  /\ (pc = "returned" /\ save_path # None) => Len(file) = 2
  /\ (pc = "raised" /\ exc = "GenerationError" /\ save_path # None) => Len(file) = 2
  /\ (pc = "raised" /\ exc # "GenerationError") => (file = <<OldLine>> /\ ~Did("Save"))

====
